---- MODULE Spec2Model ----
(***************************************************************************)
(* A model of src/main.py, SteamTradeAutoAccepter: the polling pass of     *)
(* run (connect, get_trade_offer_emails, process_trade_offers, close), the *)
(* trust gate is_trader_allowed and the retry loop of accept_trade.        *)
(*                                                                         *)
(* Python strings are TLA+ strings; "x in y" on strings is Contains, and   *)
(* str.lower() is Lower.  The collaborators (IMAP server, HTTP session,    *)
(* random.uniform, time.sleep) are the environment: each of their results  *)
(* is a nondeterministic choice among the outcomes they can produce.       *)
(***************************************************************************)
EXTENDS Integers, Sequences, FiniteSets, TLC

VARIABLES
    allowed_traders,   \* self.allowed_traders: the allowlist, a list of strings
    inbox,             \* the mailbox: inbox[id] is the message with IMAP id "id"
    mail,              \* run's local "mail": the state of the connection it names
    unseen,            \* ids of the messages without the \Seen flag
    pc,                \* where the (single) thread of run is
    fetched,           \* ids whose FETCH answered OK in the current pass
    trade_offers,      \* the list get_trade_offer_emails returned to run
    idx,               \* 1-based position of the for loop of process_trade_offers
    processed_count,   \* process_trade_offers' counter
    accepted_count,    \* process_trade_offers' counter
    gate,              \* gate[i]: what is_trader_allowed returned for offer i
    marks,             \* marks[i]: mark_email_as_read calls for offer i, this batch
    gets,              \* gets[i]: session.get calls for offer i, this batch
    confirm_url,       \* accept_trade's argument
    max_retries,       \* accept_trade's argument
    language,          \* accept_trade's argument
    attempt,           \* accept_trade's loop variable (0-based)
    result,            \* accept_trade's return value, read once pc = "accept_return"
    get_count,         \* session.get calls of the current accept_trade call
    sleep_count,       \* time.sleep calls of the current accept_trade call
    slept,             \* seconds slept since the last session.get finished
    pre_delay,         \* seconds slept before the request in flight, since the last one
    last_kind,         \* how the last finished attempt ended
    response           \* what the last session.get produced, once it has

vars == <<allowed_traders, inbox, mail, unseen, pc, fetched, trade_offers, idx, processed_count, accepted_count, gate, marks, gets,
          confirm_url, max_retries, language, attempt, result, get_count,
          sleep_count, slept, pre_delay, last_kind, response>>

\* Python's None, where a string is optional.
None == "<None>"

-----------------------------------------------------------------------------
(* Strings *)

\* Python's "p in t" for strings.
Contains(p, t) ==
    \E i \in 1..(Len(t) - Len(p) + 1) : SubSeq(t, i, i + Len(p) - 1) = p

UpperChars == "ABCDEFGHIJKLMNOPQRSTUVWXYZÄÖÜ"
LowerChars == "abcdefghijklmnopqrstuvwxyzäöü"

\* The upper-case letters, each with its lower-case letter.
LowerOf ==
    [c \in { SubSeq(UpperChars, i, i) : i \in 1..Len(UpperChars) } |->
        LET i == CHOOSE j \in 1..Len(UpperChars) : SubSeq(UpperChars, j, j) = c
        IN  SubSeq(LowerChars, i, i)]

LowerChar(c) == IF c \in DOMAIN LowerOf THEN LowerOf[c] ELSE c

\* Python's str.lower(), character by character (by halves, to keep the
\* evaluation shallow).
RECURSIVE Lower(_)
Lower(s) ==
    IF Len(s) = 0 THEN ""
    ELSE IF Len(s) = 1 THEN LowerChar(s)
    ELSE LET h == Len(s) \div 2
         IN  Lower(SubSeq(s, 1, h)) \o Lower(SubSeq(s, h + 1, Len(s)))

\* any(p in t for p in patterns), patterns a list.
AnyIn(patterns, t) == \E k \in 1..Len(patterns) : Contains(patterns[k], t)

IsDigits(s) ==
    /\ Len(s) >= 1
    /\ \A i \in 1..Len(s) : Contains(SubSeq(s, i, i), "0123456789")

-----------------------------------------------------------------------------
(* The phrase catalogue *)

language_patterns ==
    [german |->
       [trade_confirmation |-> <<"handelsbest", "handelsangebot">>,
        hello              |-> <<"hallo">>,
        your_items         |-> <<"ihre gegenstände", "ihre items">>,
        their_items        |-> <<"gegenstände von", "items von">>,
        no_items_selected  |-> <<"haben keine gegenstände",
                                 "keine gegenstände zum austausch">>,
        not_friends        |-> <<"sind mit diesem nutzer nicht befreundet",
                                 "nicht befreundet">>,
        friends_since      |-> <<"auf steam seit dem", "ist auf steam seit">>,
        steam_level        |-> <<"hat steam-level", "steam-level">>,
        send_offer         |-> <<"handelsangebot senden">>,
        cancel_trade       |-> <<"handel annullieren", "annullieren">>,
        success_indicators |-> <<"handel wurde akzeptiert", "erfolgreich",
                                 "bestätigt">>,
        error_indicators   |-> <<"fehler", "ungültig", "abgelaufen",
                                 "nicht gefunden", "fehlgeschlagen">>],
     english |->
       [trade_confirmation |-> <<"trade confirmation", "trade offer">>,
        hello              |-> <<"hello", "hi">>,
        your_items         |-> <<"your items", "items you">>,
        their_items        |-> <<"items from", "their items">>,
        no_items_selected  |-> <<"you have not selected any items",
                                 "no items selected">>,
        not_friends        |-> <<"you are not friends", "not friends with">>,
        friends_since      |-> <<"you've been friends since", "friends since">>,
        steam_level        |-> <<"steam level", "level">>,
        send_offer         |-> <<"send trade offer", "accept trade">>,
        cancel_trade       |-> <<"cancel trade", "decline">>,
        success_indicators |-> <<"trade has been accepted", "successfully",
                                 "confirmed", "trade offer accepted">>,
        error_indicators   |-> <<"error", "invalid", "expired", "not found",
                                 "failed">>]]

Categories == DOMAIN language_patterns["english"]

\* The number of patterns of one language's catalogue found in text.
RECURSIVE CountIn(_, _, _)
CountIn(patterns, k, text) ==
    IF k > Len(patterns) THEN 0
    ELSE (IF Contains(Lower(patterns[k]), text) THEN 1 ELSE 0)
         + CountIn(patterns, k + 1, text)

RECURSIVE CountMatches(_, _, _)
CountMatches(lang, cats, text) ==
    IF cats = {} THEN 0
    ELSE LET c == CHOOSE x \in cats : TRUE
         IN  CountIn(language_patterns[lang][c], 1, text)
             + CountMatches(lang, cats \ {c}, text)

\* (a classifier that returns german on a tie)
detect_email_language_TieGerman(subject, body) ==
    LET text_to_check   == Lower(subject \o " " \o body)
        german_matches  == CountMatches("german", Categories, text_to_check)
        english_matches == CountMatches("english", Categories, text_to_check)
    IN  IF german_matches >= english_matches THEN "german" ELSE "english"

detect_email_language(subject, body) ==
    LET text_to_check   == Lower(subject \o " " \o body)
        german_matches  == CountMatches("german", Categories, text_to_check)
        english_matches == CountMatches("english", Categories, text_to_check)
    IN  IF german_matches > english_matches THEN "german" ELSE "english"

-----------------------------------------------------------------------------
(* Trade records: parse_trade_email *)

\* What parse_trade_email returns after an exception: Python's None.
NoRecord == [absent |-> TRUE]

\* re.compile(r'steamcommunity\.com/(id|profiles)/') found in href.
IsProfileHref(href) ==
    \/ Contains("steamcommunity.com/id/", href)
    \/ Contains("steamcommunity.com/profiles/", href)

\* The length of the run of digits of s that starts at position i.
RECURSIVE DigitRun(_, _)
DigitRun(s, i) ==
    IF i <= Len(s) /\ IsDigits(SubSeq(s, i, i)) THEN 1 + DigitRun(s, i + 1) ELSE 0

\* re.compile(r'tradeoffer/\d+/confirm') found in href: the digits are followed
\* by "/", so the run \d+ matches is the whole run.
IsConfirmHref(href) ==
    \E i \in 1..(Len(href) - 10) :
        /\ SubSeq(href, i, i + 10) = "tradeoffer/"
        /\ LET n == DigitRun(href, i + 11)
           IN  /\ n >= 1
               /\ i + 18 + n <= Len(href)
               /\ SubSeq(href, i + 11 + n, i + 18 + n) = "/confirm"

\* s[a-1:b], the empty string when it reaches beyond the end of s.
Slice(s, a, b) == IF a >= 1 /\ b <= Len(s) /\ a <= b THEN SubSeq(s, a, b) ELSE ""

\* Python's whitespace, as str.strip() and the regex class \s take it.
SpaceChars == " \t\n\r\f"

IsSpace(c) == Contains(c, SpaceChars)

\* The length of the run of whitespace of s that starts at position i.
RECURSIVE SpaceRun(_, _)
SpaceRun(s, i) ==
    IF i <= Len(s) /\ IsSpace(SubSeq(s, i, i)) THEN 1 + SpaceRun(s, i + 1) ELSE 0

\* Python's str.strip().
Strip(s) ==
    LET kept == { i \in 1..Len(s) : ~IsSpace(SubSeq(s, i, i)) }
    IN  IF kept = {} THEN ""
        ELSE LET first == CHOOSE i \in kept : \A j \in kept : i <= j
                 last  == CHOOSE i \in kept : \A j \in kept : j <= i
             IN  SubSeq(s, first, last)

\* re.compile(r'steamstatic\.com/economy/image/') found in src.
IsItemImg(src) == Contains("steamstatic.com/economy/image/", src)

\* re.compile(r'color:\s*#D2D2D2') found in style.
IsItemNameStyle(style) ==
    \E i \in 1..(Len(style) - 5) :
        /\ SubSeq(style, i, i + 5) = "color:"
        /\ LET n == SpaceRun(style, i + 6)
           IN  Slice(style, i + 6 + n, i + 12 + n) = "#D2D2D2"

\* The names _extract_items_from_table keeps: the stripped texts of the styled
\* divs, those longer than 3 characters.
ItemNames(item_name_divs) ==
    LET texts == [i \in 1..Len(item_name_divs) |-> Strip(item_name_divs[i].text)]
    IN  SelectSeq(texts, LAMBDA text : text # "" /\ Len(text) > 3)

\* (a pairing that gives a name to the images only when as many names exist)
_extract_items_from_table_NoDefault(table, raises) ==
    IF raises THEN <<>>
    ELSE LET item_imgs  == SelectSeq(table.imgs, IsItemImg)
             item_names == ItemNames(SelectSeq(table.divs,
                               LAMBDA div : IsItemNameStyle(div.style)))
         IN  [i \in 1..(IF Len(item_names) < Len(item_imgs)
                        THEN Len(item_names) ELSE Len(item_imgs)) |->
                 [name |-> item_names[i], image |-> item_imgs[i], index |-> i - 1]]

\* A table is [text, imgs, divs]: its text, the src of its <img> elements and
\* its <div> elements as [style, text], in document order.  "raises" says that
\* find_all or get_text raises on this document: the handler returns the items
\* appended so far, and nothing is appended before the last find_all and
\* get_text have returned.
_extract_items_from_table(table, raises) ==
    IF raises THEN <<>>
    ELSE LET item_imgs  == SelectSeq(table.imgs, IsItemImg)
             item_names == ItemNames(SelectSeq(table.divs,
                               LAMBDA div : IsItemNameStyle(div.style)))
         IN  [i \in 1..Len(item_imgs) |->
                 [name  |-> IF i <= Len(item_names) THEN item_names[i]
                            ELSE "Unknown Item",
                  image |-> item_imgs[i],
                  index |-> i - 1]]

\* soup.get_text(): the text outside the tables, then the text of each table.
RECURSIVE TableTexts(_, _)
TableTexts(tables, k) ==
    IF k > Len(tables) THEN ""
    ELSE " " \o tables[k].text \o TableTexts(tables, k + 1)

SoupText(body) == body.text \o TableTexts(body.tables, 1)

\* The catalogue _extract_items and the relationship step read: the German one
\* for 'german', the English one for every other language.
PatternsOf(lang) ==
    IF lang = "german" THEN language_patterns["german"]
    ELSE language_patterns["english"]

\* The loop over all_tables, from table k on: the last "your items" table and
\* the last "their items" table give the two lists.
RECURSIVE ScanTables(_, _, _, _, _)
ScanTables(tables, k, trade_data, lang, raises) ==
    IF k > Len(tables) THEN trade_data
    ELSE LET table      == tables[k]
             table_text == Lower(table.text)
             is_your_items ==
                 IF lang = "german"
                 THEN AnyIn(<<"ihre gegenstände", "ihre items">>, table_text)
                 ELSE Contains("your items", table_text)
             is_their_items ==
                 IF lang = "german"
                 THEN AnyIn(<<"gegenstände von", "items von">>, table_text)
                 ELSE AnyIn(<<"items from", "their items">>, table_text)
             items == _extract_items_from_table(table, raises)
         IN  IF is_your_items
             THEN ScanTables(tables, k + 1,
                             [trade_data EXCEPT !.your_items = items], lang, raises)
             ELSE IF is_their_items
             THEN ScanTables(tables, k + 1,
                             [trade_data EXCEPT !.their_items = items], lang, raises)
             ELSE ScanTables(tables, k + 1, trade_data, lang, raises)

\* _extract_items, with its own try: body.fails names the steps that raise on
\* this document.  "items" raises at find_all('table'), "item_table" inside
\* _extract_items_from_table, "donation" at the get_text after the loop.
_extract_items(body, trade_data, lang) ==
    IF "items" \in body.fails THEN trade_data
    ELSE LET with_items == ScanTables(body.tables, 1, trade_data, lang,
                                      "item_table" \in body.fails)
         IN  IF "donation" \in body.fails THEN with_items
             ELSE LET text_content == Lower(SoupText(body))
                      is_donation  == AnyIn(PatternsOf(lang).no_items_selected,
                                            text_content)
                  IN  [with_items EXCEPT !.is_donation = is_donation]

\* (a loop that sets the hint for the first entry of the allowlist only)
RECURSIVE ScanTraderLinks_HintFirstEntry(_, _, _)
ScanTraderLinks_HintFirstEntry(trader_links, k, allowed) ==
    IF k > Len(trader_links)
    THEN [trader_name |-> "Unknown", trader_profile |-> None,
          is_trusted_trader |-> FALSE]
    ELSE [trader_name       |-> Strip(trader_links[k].text),
          trader_profile    |-> trader_links[k].href,
          is_trusted_trader |-> Len(allowed) >= 1
                                  /\ Contains(allowed[1], trader_links[k].href)]

\* The loop over trader_links: the name, profile and hint it leaves in trade_data.
RECURSIVE ScanTraderLinks(_, _, _)
ScanTraderLinks(trader_links, k, allowed) ==
    IF k > Len(trader_links)
    THEN [trader_name |-> "Unknown", trader_profile |-> None,
          is_trusted_trader |-> FALSE]
    ELSE LET link == trader_links[k]
             href == link.href
         IN  IF href # "" /\ AnyIn(allowed, href)
             THEN [trader_name |-> Strip(link.text), trader_profile |-> href,
                   is_trusted_trader |-> TRUE]
             ELSE IF href # "" /\ IsProfileHref(href)
             THEN [trader_name |-> Strip(link.text), trader_profile |-> href,
                   is_trusted_trader |-> FALSE]
             ELSE ScanTraderLinks(trader_links, k + 1, allowed)

\* re.search(r'tradeoffer/(\d+)/', href): the group of the leftmost match, or
\* the value trade_id had when there is none.
TradeIdOf(href, old) ==
    LET starts == { i \in 1..(Len(href) - 10) :
                      /\ SubSeq(href, i, i + 10) = "tradeoffer/"
                      /\ DigitRun(href, i + 11) >= 1
                      /\ Slice(href, i + 11 + DigitRun(href, i + 11),
                                     i + 11 + DigitRun(href, i + 11)) = "/" }
    IN  IF starts = {} THEN old
        ELSE LET i == CHOOSE x \in starts : \A y \in starts : x <= y
             IN  SubSeq(href, i + 11, i + 10 + DigitRun(href, i + 11))

\* (a loop over confirm_links without the test for 'cancel=1': every matching
\* link is taken as the confirm link)
RECURSIVE ScanConfirmLinks_NoCancelTest(_, _, _)
ScanConfirmLinks_NoCancelTest(confirm_links, k, urls) ==
    IF k > Len(confirm_links) THEN urls
    ELSE LET href == confirm_links[k].href
         IN  ScanConfirmLinks_NoCancelTest(confirm_links, k + 1,
                 [urls EXCEPT !.confirm_url = href,
                              !.trade_id = TradeIdOf(href, @)])

\* The loop over confirm_links: the last link of each kind wins.
RECURSIVE ScanConfirmLinks(_, _, _)
ScanConfirmLinks(confirm_links, k, urls) ==
    IF k > Len(confirm_links) THEN urls
    ELSE LET href == confirm_links[k].href
         IN  IF Contains("cancel=1", href)
             THEN ScanConfirmLinks(confirm_links, k + 1,
                                   [urls EXCEPT !.cancel_url = href])
             ELSE ScanConfirmLinks(confirm_links, k + 1,
                                   [urls EXCEPT !.confirm_url = href,
                                                !.trade_id = TradeIdOf(href, @)])

\* re.compile(r'avatars\..*steamstatic\.com') found in src.
IsAvatarImg(src) ==
    \E i \in 1..Len(src), j \in 1..Len(src) :
        /\ Slice(src, i, i + 7) = "avatars."
        /\ j >= i + 8
        /\ Slice(src, j, j + 14) = "steamstatic.com"
        /\ ~Contains("\n", Slice(src, i + 8, j - 1))

\* The <img> elements of the document: those outside the tables, then those
\* of each table.
RECURSIVE TableImgs(_, _)
TableImgs(tables, k) ==
    IF k > Len(tables) THEN <<>>
    ELSE tables[k].imgs \o TableImgs(tables, k + 1)

\* The characters the regex class \w takes.
WordChars == LowerChars \o UpperChars \o "ß0123456789_"

\* The length of the run of word characters of s that starts at position i.
RECURSIVE WordRun(_, _)
WordRun(s, i) ==
    IF i <= Len(s) /\ Contains(SubSeq(s, i, i), WordChars)
    THEN 1 + WordRun(s, i + 1) ELSE 0

\* The positions of text where the phrase starts.
Occurrences(phrase, text) ==
    { i \in 1..(Len(text) - Len(phrase) + 1) :
        SubSeq(text, i, i + Len(phrase) - 1) = phrase }

Least(S) == CHOOSE x \in S : \A y \in S : x <= y

Greatest(S) == CHOOSE x \in S : \A y \in S : y <= x

\* The length of what (\d+\s+\w+) matches at position j of text, 0 for no match.
EnglishDateAt(text, j) ==
    LET d == DigitRun(text, j)
        w == SpaceRun(text, j + d)
        r == WordRun(text, j + d + w)
    IN  IF d >= 1 /\ w >= 1 /\ r >= 1 THEN d + w + r ELSE 0

\* re.search(r"you've been friends since.*?(\d+\s+\w+)", text_content): the
\* group of the leftmost match, the nearest date on the line of the phrase.
EnglishFriendDate(text, default) ==
    LET phrase == "you've been friends since"
        DatesAfter(i) ==
            { j \in (i + Len(phrase))..Len(text) :
                /\ EnglishDateAt(text, j) > 0
                /\ ~Contains("\n", Slice(text, i + Len(phrase), j - 1)) }
        starts == { i \in Occurrences(phrase, text) : DatesAfter(i) # {} }
    IN  IF starts = {} THEN default
        ELSE LET j == Least(DatesAfter(Least(starts)))
             IN  SubSeq(text, j, j + EnglishDateAt(text, j) - 1)

\* The length of what (\d+\.\s*\w+\s*\d+) matches at position j of text, 0 for
\* no match: the day, a dot, a word, and the year that follows the word or,
\* failing that, the last digit inside the word.
GermanDateAt(text, j) ==
    LET d    == DigitRun(text, j)
        dot  == j + d
        word == dot + 1 + SpaceRun(text, dot + 1)
        r    == WordRun(text, word)
        w2   == SpaceRun(text, word + r)
        d2   == DigitRun(text, word + r + w2)
        inner == { q \in 2..r : IsDigits(SubSeq(text, word + q - 1, word + q - 1)) }
    IN  IF d >= 1 /\ Slice(text, dot, dot) = "." /\ r >= 1
        THEN IF d2 >= 1 THEN (word + r + w2 + d2) - j
             ELSE IF inner # {} THEN (word + Greatest(inner)) - j
             ELSE 0
        ELSE 0

\* re.search(phrase + r"\s*(\d+\.\s*\w+\s*\d+)", text_content): where the group
\* of the leftmost match starts, 0 for no match.
GermanDateStart(phrase, text) ==
    LET DateOf(i) == i + Len(phrase) + SpaceRun(text, i + Len(phrase))
        starts    == { i \in Occurrences(phrase, text) :
                         GermanDateAt(text, DateOf(i)) > 0 }
    IN  IF starts = {} THEN 0 ELSE DateOf(Least(starts))

\* The loop over friend_patterns: the first pattern that matches gives the date.
GermanFriendDate(text, default) ==
    LET j1 == GermanDateStart("auf steam seit dem", text)
        j2 == GermanDateStart("ist auf steam seit", text)
        j  == IF j1 > 0 THEN j1 ELSE j2
    IN  IF j = 0 THEN default
        ELSE SubSeq(text, j, j + GermanDateAt(text, j) - 1)

\* What parse_trade_email's caller gets when an exception leaves it.
Raised == [raised |-> TRUE]

\* The steps of parse_trade_email inside its try and outside the try of
\* _extract_items: an exception there goes to "except Exception".
GuardedSteps == {"trader", "avatar", "level", "relationship", "links"}

\* The steps inside the try of _extract_items or of _extract_items_from_table.
ItemSteps == {"items", "item_table", "donation"}

Steps == GuardedSteps \cup ItemSteps

\* trade_data as parse_trade_email builds it before the first step.
DefaultRecord(lang) ==
    [trader_name       |-> "Unknown",
     trader_profile    |-> None,
     trader_avatar     |-> None,
     trader_level      |-> "Unknown",
     friendship_date   |-> "Unknown",
     friendship_status |-> "Unknown",
     your_items        |-> <<>>,
     their_items       |-> <<>>,
     confirm_url       |-> None,
     cancel_url        |-> None,
     trade_id          |-> None,
     is_trusted_trader |-> FALSE,
     is_donation       |-> FALSE,
     language          |-> lang]

\* A body is [text, links, imgs, spans, tables, raises, fails]: the text outside
\* the tables, the <a> elements as [href, text], the src of the <img> elements
\* outside the tables, the <span> elements as [class, text], the tables, all in
\* document order; whether BeautifulSoup raises on it, and the steps that raise.
\* TryBody is what the try block of parse_trade_email returns when it gets to
\* its end.
TryBody(body, lang, allowed) ==
         LET trader_links  == SelectSeq(body.links, LAMBDA l : IsProfileHref(l.href))
             trader        == ScanTraderLinks(trader_links, 1, allowed)
             avatar_imgs   == SelectSeq(body.imgs \o TableImgs(body.tables, 1),
                                        IsAvatarImg)
             level_spans   == SelectSeq(body.spans,
                                 LAMBDA span : "friendPlayerLevelNum" \in span.class)
             text_content  == Lower(SoupText(body))
             not_friends   == AnyIn(PatternsOf(lang).not_friends, text_content)
             friendship_date ==
                 IF lang = "german" THEN GermanFriendDate(text_content, "Unknown")
                 ELSE EnglishFriendDate(text_content, "Unknown")
             before_items ==
                 [DefaultRecord(lang) EXCEPT
                    !.trader_name       = trader.trader_name,
                    !.trader_profile    = trader.trader_profile,
                    !.is_trusted_trader = trader.is_trusted_trader,
                    !.trader_avatar     = IF avatar_imgs # <<>> THEN avatar_imgs[1]
                                          ELSE @,
                    !.trader_level      = IF level_spans # <<>>
                                          THEN Strip(level_spans[1].text) ELSE @,
                    !.friendship_status = IF not_friends THEN "Not friends" ELSE @,
                    !.friendship_date   = friendship_date]
             with_items    == _extract_items(body, before_items, lang)
             confirm_links == SelectSeq(body.links, LAMBDA l : IsConfirmHref(l.href))
             urls          == ScanConfirmLinks(confirm_links, 1,
                                 [confirm_url |-> None, cancel_url |-> None,
                                  trade_id |-> None])
         IN  [with_items EXCEPT !.confirm_url = urls.confirm_url,
                                !.cancel_url  = urls.cancel_url,
                                !.trade_id    = urls.trade_id]

\* (a parse_trade_email with the only try: _extract_items has none of its own)
parse_trade_email_ItemsUnguarded(body, lang, allowed) ==
    IF body.fails \ Steps # {} THEN Raised
    ELSE IF body.raises \/ body.fails # {} THEN NoRecord
    ELSE TryBody(body, lang, allowed)

\* (a parse_trade_email whose try starts after BeautifulSoup(body, ...))
parse_trade_email_SoupOutsideTry(body, lang, allowed) ==
    IF body.raises THEN Raised
    ELSE IF body.fails \cap GuardedSteps # {} THEN NoRecord
    ELSE TryBody(body, lang, allowed)

\* parse_trade_email: the try block, and "except Exception: return None" for an
\* exception raised inside it.
parse_trade_email(body, lang, allowed) ==
    IF body.fails \ Steps # {} THEN Raised
    ELSE IF body.raises \/ body.fails \cap GuardedSteps # {} THEN NoRecord
    ELSE TryBody(body, lang, allowed)

-----------------------------------------------------------------------------
(* The trust gate: is_trader_allowed *)

\* Python's truth value of an optional string: None and '' are false.
Truthy(s) == s # None /\ s # ""

\* (a gate that looks at the first entry only)
is_trader_allowed_FirstEntryOnly(trade_data, allowed) ==
    IF ~Truthy(trade_data.trader_profile) THEN FALSE
    ELSE Len(allowed) >= 1 /\ Contains(allowed[1], trade_data.trader_profile)

\* (a gate that lets a record without a profile through)
is_trader_allowed_FailOpen(trade_data, allowed) ==
    IF ~Truthy(trade_data.trader_profile) THEN TRUE
    ELSE \E k \in 1..Len(allowed) : Contains(allowed[k], trade_data.trader_profile)

\* The for loop over self.allowed_traders, from entry k on.
RECURSIVE MatchesFrom(_, _, _)
MatchesFrom(allowed, k, trader_profile) ==
    IF k > Len(allowed) THEN FALSE
    ELSE IF Contains(allowed[k], trader_profile) THEN TRUE
    ELSE MatchesFrom(allowed, k + 1, trader_profile)

is_trader_allowed(trade_data, allowed) ==
    IF ~Truthy(trade_data.trader_profile) THEN FALSE
    ELSE MatchesFrom(allowed, 1, trade_data.trader_profile)

\* (a gate that clears the confirm_url of a record it rejects)
RecordAfterGate_RejectedCleared(trade_data, allowed) ==
    IF is_trader_allowed(trade_data, allowed) THEN trade_data
    ELSE [trade_data EXCEPT !.confirm_url = None]

\* The record is_trader_allowed was passed, when it has returned: it reads the
\* dict with get and [] and assigns to none of its keys.
RecordAfterGate(trade_data, allowed) == trade_data

-----------------------------------------------------------------------------
(* get_trade_offer_emails *)

is_trade_email(subject) ==
    LET subject_lower == Lower(subject)
    IN  \/ /\ Contains("trade", subject_lower)
           /\ \/ Contains("confirmation", subject_lower)
              \/ Contains("offer", subject_lower)
        \/ /\ Contains("handel", subject_lower)
           /\ \/ Contains("bestätigung", subject_lower)
              \/ Contains("angebot", subject_lower)

\* The raw body handed to detect_email_language: the text and the link targets.
RECURSIVE Hrefs(_, _)
Hrefs(links, k) ==
    IF k > Len(links) THEN ""
    ELSE " " \o links[k].href \o Hrefs(links, k + 1)

RawBody(body) == SoupText(body) \o Hrefs(body.links, 1)

\* (an iteration without the test of the subject)
\* "if trade_data:" and the append: the offers one message adds to the list.
Appended(subject, trade_data, lang) ==
    IF trade_data = NoRecord THEN <<>>
    ELSE <<[subject    |-> subject,
            trade_data |-> trade_data,
            language   |-> lang]>>

\* language = self.detect_email_language(subject, body) and
\* trade_data = self.parse_trade_email(body, language)
ParseAs(msg, lang, allowed) ==
    Appended(msg.subject, parse_trade_email(msg.body, lang, allowed), lang)

\* (an iteration without the test of the subject)
ExtractOne_AnySubject(msg, allowed) ==
    ParseAs(msg, detect_email_language(msg.subject, RawBody(msg.body)), allowed)

\* What one iteration of the for loop over email_ids computes for a message
\* whose FETCH answered OK: the list of offers it appends (none or one, without
\* the email_id).
ExtractOne(msg, allowed) ==
    IF ~is_trade_email(msg.subject) THEN <<>>
    ELSE ParseAs(msg, detect_email_language(msg.subject, RawBody(msg.body)),
                 allowed)

-----------------------------------------------------------------------------
(* Bounds and input sets *)

MaxEmails == 2          \* messages in the mailbox
MaxFetchFailures == 1   \* FETCH commands of one pass that do not answer OK
MaxRetriesArg == 3      \* largest max_retries accept_trade is called with directly
MaxAllowed == 2         \* entries of the allowlist is_trader_allowed is called with
MaxRunEmails == 1       \* messages in the mailbox of a run that can be interrupted

RetryDelayMin == 5      \* random.uniform(5, 15)
RetryDelayMax == 15
ConnDelayMin == 10      \* random.uniform(10, 30)
ConnDelayMax == 30
DefaultMaxRetries == 3  \* max_retries=3

\* Values random.uniform(a, b) can return: both ends and the middle.
Uniform(a, b) == {a, (a + b) \div 2, b}

\* A document without images, spans and tables, on which no step raises.
PlainDoc == [imgs |-> <<>>, spans |-> <<>>, tables |-> <<>>, fails |-> {}]

AllowLists ==
    { <<"/id/alice">>,
      <<"/id/bob", "/profiles/7656">> }

ConfirmLink == [href |-> "https://steamcommunity.com/tradeoffer/123456789/confirm?accountid=1",
                text |-> "Accept"]
CancelLink  == [href |-> "https://steamcommunity.com/tradeoffer/123456789/confirm?accountid=1&cancel=1",
                text |-> "Cancel"]
AliceLink   == [href |-> "https://steamcommunity.com/id/alice", text |-> "alice"]
CarolLink   == [href |-> "https://steamcommunity.com/profiles/7656", text |-> "carol"]
MalloryLink == [href |-> "https://steamcommunity.com/id/mallory", text |-> "mallory"]

MessagePool ==
    { \* English offer from alice, confirm and cancel links
      [subject |-> "New Trade Offer",
       body |-> [text |-> "Hello, alice offered you a trade",
                 links |-> <<AliceLink, ConfirmLink, CancelLink>>, raises |-> FALSE] @@ PlainDoc],
      \* German offer from carol
      [subject |-> "Neues Handelsangebot",
       body |-> [text |-> "Hallo, carol hat Steam-Level 5",
                 links |-> <<CarolLink, CancelLink, ConfirmLink>>, raises |-> FALSE] @@ PlainDoc],
      \* offer from mallory, who is on no allowlist
      [subject |-> "Trade Confirmation",
       body |-> [text |-> "mallory offered you a trade",
                 links |-> <<MalloryLink, ConfirmLink>>, raises |-> FALSE] @@ PlainDoc],
      \* offer from alice without a confirmation link
      [subject |-> "New Trade Offer",
       body |-> [text |-> "alice offered you a trade",
                 links |-> <<AliceLink, CancelLink>>, raises |-> FALSE] @@ PlainDoc],
      \* offer without a profile link
      [subject |-> "New Trade Offer",
       body |-> [text |-> "You have a trade",
                 links |-> <<ConfirmLink>>, raises |-> FALSE] @@ PlainDoc],
      \* offer whose body makes the parser raise
      [subject |-> "New Trade Offer",
       body |-> [text |-> "", links |-> <<>>, raises |-> TRUE] @@ PlainDoc],
      \* a message from Steam that is no trade offer
      [subject |-> "Your Steam Guard code",
       body |-> [text |-> "Hello", links |-> <<>>, raises |-> FALSE] @@ PlainDoc] }

Inboxes == UNION { [1..n -> MessagePool] : n \in 1..MaxEmails }

\* What session.get can produce: a response, or one of the exceptions
\* accept_trade tells apart.
Responses ==
    { [kind |-> "response", status_code |-> 200, text |-> "Trade has been ACCEPTED"],
      [kind |-> "response", status_code |-> 200, text |-> "Handel BESTÄTIGT"],
      [kind |-> "response", status_code |-> 200, text |-> "Error: offer Expired"],
      [kind |-> "response", status_code |-> 200, text |-> "Fehler: abgelaufen"],
      [kind |-> "response", status_code |-> 200, text |-> "Successfully failed"],
      [kind |-> "response", status_code |-> 200, text |-> "<html>ok</html>"],
      [kind |-> "response", status_code |-> 404, text |-> "Confirmed"] }

Exceptions == { "ConnectionError", "Timeout", "RequestException", "Exception" }

GetOutcomes ==
    Responses \cup { [kind |-> e, status_code |-> 0, text |-> ""] : e \in Exceptions }

NoResponse == [kind |-> "none", status_code |-> 0, text |-> ""]

Zeros(n) == [i \in 1..n |-> 0]

Languages == {"german", "english"}

\* ExtractOne over the input sets, evaluated once.
Extracted == [m \in MessagePool |-> [a \in AllowLists |-> ExtractOne(m, a)]]

\* The for loop over email_ids, from id k on: ids outside "ids" are not in the
\* search result, ids in "failed" are those whose FETCH did not answer OK.
\* trade_emails.append({'email_id': ..., ...}) for what message k gave.
WithEmailId(found, k) ==
    IF found = <<>> THEN <<>>
    ELSE <<[email_id   |-> k,
            subject    |-> found[1].subject,
            trade_data |-> found[1].trade_data,
            language   |-> found[1].language]>>

RECURSIVE BuildOffers(_, _, _, _, _)
BuildOffers(box, k, ids, failed, allowed) ==
    IF k > Len(box) THEN <<>>
    ELSE IF k \notin ids \/ k \in failed
         THEN BuildOffers(box, k + 1, ids, failed, allowed)
         ELSE WithEmailId(Extracted[box[k]][allowed], k)
                \o BuildOffers(box, k + 1, ids, failed, allowed)

-----------------------------------------------------------------------------
(* accept_trade *)

\* (a classification that tests the error phrases before the success phrases)
Classify_ErrorFirst(o, lang) ==
    IF o.kind = "response"
    THEN IF o.status_code = 200
         THEN IF AnyIn(language_patterns[lang].error_indicators, Lower(o.text))
              THEN "error_phrase"
              ELSE IF AnyIn(language_patterns[lang].success_indicators, Lower(o.text))
              THEN "success"
              ELSE "plain_200"
         ELSE "http_status"
    ELSE IF o.kind \in {"ConnectionError", "Timeout"} THEN "connection"
    ELSE IF o.kind = "RequestException" THEN "request"
    ELSE "unexpected"

\* How one attempt ends: the branch of the loop body session.get's outcome takes.
Classify(o, lang) ==
    IF o.kind = "response"
    THEN IF o.status_code = 200
         THEN LET response_text      == Lower(o.text)
                  success_indicators == language_patterns[lang].success_indicators
                  error_indicators   == language_patterns[lang].error_indicators
              IN  IF AnyIn(success_indicators, response_text) THEN "success"
                  ELSE IF AnyIn(error_indicators, response_text) THEN "error_phrase"
                  ELSE "plain_200"
         ELSE "http_status"
    ELSE IF o.kind \in {"ConnectionError", "Timeout"} THEN "connection"
    ELSE IF o.kind = "RequestException" THEN "request"
    ELSE "unexpected"

Succeeds(kind) == kind \in {"success", "plain_200"}

\* (a loop that gives up one attempt early)
WillRetry_OneShort(n, retries) == n < retries - 2

\* "if attempt < max_retries - 1: ... continue", the same test in every branch.
WillRetry(n, retries) == n < retries - 1

\* (a sleep before every attempt, the first included)
PreSleep_EveryAttempt(n) == Uniform(RetryDelayMin, RetryDelayMax)

\* The sleep before the GET: none on the first attempt.
PreSleep(n) ==
    IF n > 0 THEN Uniform(RetryDelayMin, RetryDelayMax) ELSE {0}

\* (a handler that sleeps after the last attempt too)
PostSleep_LastAttemptToo(kind, retry) ==
    IF kind = "connection" THEN Uniform(ConnDelayMin, ConnDelayMax) ELSE {0}

\* The sleep in the ConnectionError/Timeout handler.
PostSleep(kind, retry) ==
    IF kind = "connection" /\ retry THEN Uniform(ConnDelayMin, ConnDelayMax) ELSE {0}

\* (an accept_trade without the last handler, "except Exception")
Caught_NoCatchAll(e) == e \in {"ConnectionError", "Timeout", "RequestException"}

\* The exceptions the except clauses of accept_trade catch: ConnectionError and
\* Timeout, RequestException, and with "except Exception" every other one.
Caught(e) ==
    \/ e \in {"ConnectionError", "Timeout"}
    \/ e = "RequestException"
    \/ e \in Exceptions

\* Classify over the input sets, evaluated once.
Classified == [o \in GetOutcomes |-> [l \in Languages |-> Classify(o, l)]]

\* An iteration of "for attempt in range(max_retries)", up to the call of
\* session.get: the sleep before a retry, then the request.
AttemptGet ==
    /\ pc = "accept_trade"
    /\ attempt < max_retries
    /\ \E d \in PreSleep(attempt) :
         /\ sleep_count' = sleep_count + (IF d > 0 THEN 1 ELSE 0)
         /\ pre_delay' = slept + d
    /\ slept' = 0
    /\ get_count' = get_count + 1
    /\ gets' = [gets EXCEPT ![idx] = @ + 1]
    /\ response' = NoResponse
    /\ pc' = "session_get"
    /\ UNCHANGED <<allowed_traders, inbox, mail, unseen, fetched, trade_offers, idx,
                   processed_count, accepted_count, gate, marks,
                   confirm_url, max_retries, language, attempt, result, last_kind>>

\* The rest of the iteration: what session.get produced, and the branch taken.
\* An exception no except clause catches leaves accept_trade and its callers
\* up to the handler of run.
AttemptResult ==
    /\ pc = "session_get"
    /\ \E o \in GetOutcomes :
         LET kind  == Classified[o][language]
             retry == ~Succeeds(kind) /\ WillRetry(attempt, max_retries)
         IN  IF o.kind \in Exceptions /\ ~Caught(o.kind)
             THEN /\ response' = o
                  /\ pc' = "run_except"
                  /\ UNCHANGED <<last_kind, sleep_count, slept, pre_delay,
                                 attempt, result>>
             ELSE
             /\ response' = o
             /\ last_kind' = kind
             /\ \E d2 \in PostSleep(kind, retry) :
                  /\ sleep_count' = sleep_count + (IF d2 > 0 THEN 1 ELSE 0)
                  /\ slept' = d2
             /\ pre_delay' = 0
             /\ IF retry
                THEN /\ attempt' = attempt + 1
                     /\ pc' = "accept_trade"
                     /\ UNCHANGED result
                ELSE /\ result' = Succeeds(kind)
                     /\ pc' = "accept_return"
                     /\ UNCHANGED attempt
    /\ UNCHANGED <<allowed_traders, inbox, mail, unseen, fetched, trade_offers, idx,
                   processed_count, accepted_count, gate, marks, gets,
                   confirm_url, max_retries, language, get_count>>

\* The loop ends without having returned: "return False" after it.
AcceptExhausted ==
    /\ pc = "accept_trade"
    /\ attempt >= max_retries
    /\ result' = FALSE
    /\ pc' = "accept_return"
    /\ UNCHANGED <<allowed_traders, inbox, mail, unseen, fetched, trade_offers, idx,
                   processed_count, accepted_count, gate, marks, gets,
                   confirm_url, max_retries, language, attempt, get_count,
                   sleep_count, slept, pre_delay, last_kind, response>>

\* The frame of accept_trade when no call is in progress.
IdleFrame ==
    /\ confirm_url = None
    /\ max_retries = 0
    /\ language = "english"
    /\ attempt = 0
    /\ result = FALSE
    /\ get_count = 0
    /\ sleep_count = 0
    /\ slept = 0
    /\ pre_delay = 0
    /\ last_kind = "none"
    /\ response = NoResponse

\* The call accept_trade(url, max_retries=retries, language=lang).
CallAcceptTrade(url, retries, lang) ==
    /\ confirm_url' = url
    /\ max_retries' = retries
    /\ language' = lang
    /\ attempt' = 0
    /\ result' = FALSE
    /\ get_count' = 0
    /\ sleep_count' = 0
    /\ slept' = 0
    /\ pre_delay' = 0
    /\ last_kind' = "none"
    /\ response' = NoResponse

\* accept_trade's frame is discarded when its caller has read the result.
DropFrame ==
    /\ confirm_url' = None
    /\ max_retries' = 0
    /\ language' = "english"
    /\ attempt' = 0
    /\ result' = FALSE
    /\ get_count' = 0
    /\ sleep_count' = 0
    /\ slept' = 0
    /\ pre_delay' = 0
    /\ last_kind' = "none"
    /\ response' = NoResponse

frame == <<confirm_url, max_retries, language, attempt, result, get_count,
           sleep_count, slept, pre_delay, last_kind, response>>

-----------------------------------------------------------------------------
(* mark_email_as_read, process_trade_offers *)

\* mail.store(email_id, '+FLAGS', '\\Seen'): the flag is set unless store raises.
mark_email_as_read(seen, email_id, ok) ==
    IF ok THEN seen \ {email_id} ELSE seen

\* "if not self.is_trader_allowed(trade_data)": the offer is rejected.
Rejected_GateSkipped(trade_data, allowed) == FALSE

Rejected(trade_data, allowed) == ~is_trader_allowed(trade_data, allowed)

\* "if trade_data.get('confirm_url')".
HasConfirmUrl_Always(trade_data) == TRUE

HasConfirmUrl(trade_data) == Truthy(trade_data.confirm_url)

\* The mark_email_as_read calls so far, after the one that follows accept_trade:
\* it is made whatever accept_trade returned.
MarksAfterConfirm_OnlyAccepted(m, i, accepted) ==
    IF accepted THEN [m EXCEPT ![i] = @ + 1] ELSE m

MarksAfterConfirm(m, i, accepted) == [m EXCEPT ![i] = @ + 1]

\* (a counter that counts every confirmation, whatever accept_trade returned)
AcceptedAfter_EveryConfirm(count, accepted) == count + 1

\* "if self.accept_trade(...): accepted_count += 1".
AcceptedAfter(count, accepted) == count + (IF accepted THEN 1 ELSE 0)

\* One iteration of "for offer in trade_offers", up to the call of accept_trade.
ProcessOffer ==
    /\ pc = "process"
    /\ idx <= Len(trade_offers)
    /\ LET offer          == trade_offers[idx]
           trade_data     == offer.trade_data
           offer_language == offer.language
           rejected       == Rejected(trade_data, allowed_traders)
       IN  /\ gate' = Append(gate, is_trader_allowed(trade_data, allowed_traders))
           /\ IF rejected \/ ~HasConfirmUrl(trade_data)
              THEN /\ \E ok \in BOOLEAN :
                        unseen' = mark_email_as_read(unseen, offer.email_id, ok)
                   /\ marks' = [marks EXCEPT ![idx] = @ + 1]
                   /\ processed_count' = processed_count + 1
                   /\ idx' = idx + 1
                   /\ UNCHANGED <<pc, frame>>
              ELSE /\ pc' = "accept_trade"
                   /\ CallAcceptTrade(trade_data.confirm_url, DefaultMaxRetries,
                                      offer_language)
                   /\ UNCHANGED <<unseen, marks, processed_count, idx>>
    /\ trade_offers' = [trade_offers EXCEPT ![idx].trade_data =
                           RecordAfterGate(@, allowed_traders)]
    /\ UNCHANGED <<allowed_traders, inbox, mail, fetched, accepted_count, gets>>

\* The rest of the iteration, once accept_trade has returned.
FinishOffer ==
    /\ pc = "accept_return"
    /\ idx <= Len(trade_offers)
    /\ accepted_count' = AcceptedAfter(accepted_count, result)
    /\ \E ok \in BOOLEAN :
         unseen' = mark_email_as_read(unseen, trade_offers[idx].email_id, ok)
    /\ marks' = MarksAfterConfirm(marks, idx, result)
    /\ processed_count' = processed_count + 1
    /\ idx' = idx + 1
    /\ pc' = "process"
    /\ DropFrame
    /\ UNCHANGED <<allowed_traders, inbox, mail, fetched, trade_offers, gate, gets>>

\* "return processed_count, accepted_count", back in run.
ReturnCounts ==
    /\ pc = "process"
    /\ idx > Len(trade_offers)
    /\ pc' = "close"
    /\ UNCHANGED <<allowed_traders, inbox, mail, unseen, fetched, trade_offers, idx,
                   processed_count, accepted_count, gate, marks, gets, frame>>

-----------------------------------------------------------------------------
(* run *)

\* mail = self.connect_to_email(): a logged-in connection, or None, and then
\* run sleeps a minute before the next pass.  The name "mail" is bound anew:
\* what it named before is out of reach of run.
Connect ==
    /\ pc = "connect"
    /\ \E ok \in BOOLEAN :
         /\ pc' = IF ok THEN "fetch" ELSE "sleep_connect"
         /\ mail' = IF ok THEN "open" ELSE "none"
    /\ UNCHANGED <<allowed_traders, inbox, unseen, fetched, trade_offers, idx,
                   processed_count, accepted_count, gate, marks, gets, frame>>

\* What run and process_trade_offers start from with the list "offers".
StartBatch(offers) ==
    /\ trade_offers' = offers
    /\ pc' = IF offers = <<>> THEN "close" ELSE "process"
    /\ idx' = 1
    /\ processed_count' = 0
    /\ accepted_count' = 0
    /\ gate' = <<>>
    /\ marks' = Zeros(Len(offers))
    /\ gets' = Zeros(Len(offers))

\* get_trade_offer_emails and run's branch on its result.  An exception or a
\* failed SEARCH gives the empty list.  The \Seen flag is changed by
\* mark_email_as_read alone: a server that sets it on FETCH is not modelled.
GetTradeOfferEmails ==
    /\ pc = "fetch"
    /\ \E raised \in BOOLEAN,
          failed \in { f \in SUBSET unseen : Cardinality(f) <= MaxFetchFailures } :
         /\ StartBatch(IF raised THEN <<>>
                       ELSE BuildOffers(inbox, 1, unseen, failed, allowed_traders))
         /\ fetched' = IF raised THEN {} ELSE unseen \ failed
    /\ UNCHANGED <<allowed_traders, inbox, mail, unseen, frame>>

\* The locals of run's pass are dropped when the next pass starts.
NextPass ==
    /\ pc' = "connect"
    /\ trade_offers' = <<>>
    /\ fetched' = {}
    /\ idx' = 1
    /\ processed_count' = 0
    /\ accepted_count' = 0
    /\ gate' = <<>>
    /\ marks' = <<>>
    /\ gets' = <<>>

\* mail.close(): an exception it raises goes to the handler of run, and
\* mail.logout() is not reached.
Close ==
    /\ pc = "close"
    /\ \E raised \in BOOLEAN :
         /\ pc' = IF raised THEN "run_except" ELSE "logout"
         /\ mail' = IF raised THEN mail ELSE "closed"
    /\ UNCHANGED <<allowed_traders, inbox, unseen, fetched, trade_offers, idx,
                   processed_count, accepted_count, gate, marks, gets, frame>>

\* mail.logout(), and then the sleep of check_interval seconds; an exception
\* it raises goes to the handler of run.
Logout ==
    /\ pc = "logout"
    /\ \E raised \in BOOLEAN :
         /\ pc' = IF raised THEN "run_except" ELSE "sleep_interval"
         /\ mail' = IF raised THEN mail ELSE "logged_out"
    /\ UNCHANGED <<allowed_traders, inbox, unseen, fetched, trade_offers, idx,
                   processed_count, accepted_count, gate, marks, gets, frame>>

\* (a run whose handler of Exception ends the loop)
RunHandler_BreakOnAny(e) == "stopped"

\* Where the except clauses of run lead: "break" for KeyboardInterrupt, a sleep
\* of a minute and the next iteration for an Exception.
RunHandler(e) == IF e = "KeyboardInterrupt" THEN "stopped" ELSE "sleep_except"

\* "except Exception" of run: log, then sleep a minute.
RunExcept ==
    /\ pc = "run_except"
    /\ pc' = RunHandler("Exception")
    /\ DropFrame
    /\ UNCHANGED <<allowed_traders, inbox, mail, unseen, fetched, trade_offers, idx,
                   processed_count, accepted_count, gate, marks, gets>>

\* The three sleeps of run: after a failed connect, after a pass, in the handler.
Sleeps == {"sleep_connect", "sleep_interval", "sleep_except"}

\* time.sleep returns and the while loop starts its next iteration.
Sleep ==
    /\ pc \in Sleeps
    /\ NextPass
    /\ UNCHANGED <<allowed_traders, inbox, mail, unseen, frame>>

\* The points of run inside its try block, and those inside "except Exception".
InTry ==
    pc \in {"connect", "sleep_connect", "fetch", "process", "accept_trade",
            "session_get", "accept_return", "close", "logout", "sleep_interval"}

InHandler == pc \in {"run_except", "sleep_except"}

\* KeyboardInterrupt is raised in the thread of run, wherever it is.
Interrupt ==
    /\ InTry \/ InHandler
    /\ pc' = IF InTry THEN "interrupt_in_try" ELSE "interrupt_in_handler"
    /\ UNCHANGED <<allowed_traders, inbox, mail, unseen, fetched, trade_offers, idx,
                   processed_count, accepted_count, gate, marks, gets, frame>>

\* KeyboardInterrupt raised in the try block gets to "except KeyboardInterrupt:
\* break"; raised in the handler of Exception it leaves run.
EndRun ==
    /\ pc \in {"interrupt_in_try", "interrupt_in_handler"}
    /\ pc' = IF pc = "interrupt_in_try" THEN RunHandler("KeyboardInterrupt")
             ELSE "raised"
    /\ DropFrame
    /\ UNCHANGED <<allowed_traders, inbox, mail, unseen, fetched, trade_offers, idx,
                   processed_count, accepted_count, gate, marks, gets>>

-----------------------------------------------------------------------------
(* Specifications *)

Init ==
    /\ allowed_traders \in AllowLists
    /\ mail = "none"
    /\ inbox \in Inboxes
    /\ unseen = 1..Len(inbox)
    /\ pc = "connect"
    /\ fetched = {}
    /\ trade_offers = <<>>
    /\ idx = 1
    /\ processed_count = 0
    /\ accepted_count = 0
    /\ gate = <<>>
    /\ marks = <<>>
    /\ gets = <<>>
    /\ IdleFrame

Next ==
    \/ Connect
    \/ GetTradeOfferEmails
    \/ ProcessOffer
    \/ AttemptGet
    \/ AttemptResult
    \/ FinishOffer
    \/ ReturnCounts
    \/ Close
    \/ Logout
    \/ RunExcept
    \/ Sleep

Spec == Init /\ [][Next]_vars

\* run with the interrupt: a mailbox of at most MaxRunEmails messages.
InitRun == Init /\ Len(inbox) <= MaxRunEmails

NextRun ==
    \/ Next
    \/ Interrupt
    \/ EndRun

\* The thread of run is not suspended: a step it can take is taken.  Nothing
\* says that an interrupt ever comes.
SpecRun == InitRun /\ [][NextRun]_vars /\ WF_vars(Next \/ EndRun)

\* accept_trade called on its own, with every max_retries and language.
InitAccept ==
    /\ allowed_traders = <<>>
    /\ mail = "none"
    /\ inbox = <<>>
    /\ unseen = {}
    /\ pc = "accept_trade"
    /\ fetched = {}
    /\ trade_offers = <<>>
    /\ idx = 1
    /\ processed_count = 0
    /\ accepted_count = 0
    /\ gate = <<>>
    /\ marks = <<0>>
    /\ gets = <<0>>
    /\ confirm_url = ConfirmLink.href
    /\ max_retries \in 0..MaxRetriesArg
    /\ language \in Languages
    /\ attempt = 0
    /\ result = FALSE
    /\ get_count = 0
    /\ sleep_count = 0
    /\ slept = 0
    /\ pre_delay = 0
    /\ last_kind = "none"
    /\ response = NoResponse

NextAccept ==
    \/ AttemptGet
    \/ AttemptResult
    \/ AcceptExhausted

SpecAccept == InitAccept /\ [][NextAccept]_vars

\* accept_trade runs in one thread that nothing suspends: a step that can be
\* taken is taken (session.get returns or raises within its timeout).
SpecAcceptLive == SpecAccept /\ WF_vars(NextAccept)

\* is_trader_allowed called on its own, on every record and allowlist.  The
\* entries are not empty: get_env_config drops the empty ones.
GateEntries == {"/id/alice", "/id/bob", "/profiles/7656", "lic"}

GateProfiles ==
    { None, "",
      "https://steamcommunity.com/id/alice",
      "https://steamcommunity.com/id/alice2",
      "https://steamcommunity.com/profiles/7656",
      "https://steamcommunity.com/id/mallory" }

GateRecord(profile) ==
    [DefaultRecord("english") EXCEPT !.trader_profile = profile]

InitGate ==
    /\ allowed_traders \in UNION { [1..n -> GateEntries] : n \in 1..MaxAllowed }
    /\ mail = "none"
    /\ inbox = <<>>
    /\ unseen = {}
    /\ pc = "is_trader_allowed"
    /\ fetched = {}
    /\ \E profile \in GateProfiles :
         trade_offers = <<[email_id |-> 1, subject |-> "New Trade Offer",
                           trade_data |-> GateRecord(profile),
                           language |-> "english"]>>
    /\ idx = 1
    /\ processed_count = 0
    /\ accepted_count = 0
    /\ gate = <<>>
    /\ marks = <<0>>
    /\ gets = <<0>>
    /\ IdleFrame

GateCall ==
    /\ pc = "is_trader_allowed"
    /\ gate' = Append(gate, is_trader_allowed(trade_offers[idx].trade_data,
                                              allowed_traders))
    /\ pc' = "gate_return"
    /\ UNCHANGED <<allowed_traders, inbox, mail, unseen, fetched, trade_offers, idx,
                   processed_count, accepted_count, marks, gets, frame>>

NextGate == GateCall

SpecGate == InitGate /\ [][NextGate]_vars

\* parse_trade_email called on its own.  The documents: every short sequence
\* of profile links followed by every short sequence of action links; documents
\* with relationship wording, images, spans and item tables; and the two richest
\* documents with every set of failing steps.
MaxLinks == 2           \* profile links, and action links, of a generated document

ConfirmLink2 == [href |-> "https://steamcommunity.com/tradeoffer/222/confirm?accountid=1",
                 text |-> "Accept"]
CancelLink3  == [href |-> "https://steamcommunity.com/tradeoffer/333/confirm?cancel=1",
                 text |-> "Decline"]

SeqsUpTo(S, n) == UNION { [1..m -> S] : m \in 0..n }

LinkDocs ==
    { [text |-> "You have a new trade offer", links |-> profiles \o actions,
       raises |-> FALSE] @@ PlainDoc :
        profiles \in SeqsUpTo({AliceLink, CarolLink, MalloryLink}, MaxLinks),
        actions  \in SeqsUpTo({ConfirmLink, ConfirmLink2, CancelLink3}, MaxLinks) }

AvatarImg == "https://avatars.cloudflare.steamstatic.com/0123_medium.jpg"
ItemImg1  == "https://community.cloudflare.steamstatic.com/economy/image/crate"
ItemImg2  == "https://community.cloudflare.steamstatic.com/economy/image/key"
LogoImg   == "https://store.steampowered.com/logo.png"

LevelSpan == [class |-> {"friendPlayerLevelNum"}, text |-> " 42 "]
OtherSpan == [class |-> {"persona"}, text |-> "alice"]

CrateDiv == [style |-> "font-size: 12px; color: #D2D2D2", text |-> " Mann Co. Supply Crate "]
KeyDiv   == [style |-> "color:#D2D2D2", text |-> "Key"]
MetalDiv == [style |-> "color:  #D2D2D2;", text |-> "Refined Metal"]
NoteDiv  == [style |-> "color: #8F98A0", text |-> "Tradable after a week"]

YourTable   == [text |-> "Your items: Mann Co. Supply Crate",
                imgs |-> <<ItemImg1>>, divs |-> <<CrateDiv>>]
TheirTable  == [text |-> "Items from alice: Key Refined Metal",
                imgs |-> <<ItemImg2, ItemImg1>>, divs |-> <<NoteDiv, KeyDiv, MetalDiv>>]
IhreTable   == [text |-> "Ihre Gegenstände: Mann Co. Supply Crate",
                imgs |-> <<ItemImg1, ItemImg2>>, divs |-> <<CrateDiv>>]
VonTable    == [text |-> "Gegenstände von carol: Refined Metal",
                imgs |-> <<ItemImg2>>, divs |-> <<MetalDiv>>]
LayoutTable == [text |-> "Steam", imgs |-> <<LogoImg>>, divs |-> <<>>]

OfferLinks == <<AliceLink, ConfirmLink, CancelLink>>

EnglishDoc ==
    [text   |-> "Hello, alice offered you a trade. You've been friends since 12 March 2020.",
     links  |-> OfferLinks,
     imgs   |-> <<LogoImg, AvatarImg>>,
     spans  |-> <<OtherSpan, LevelSpan>>,
     tables |-> <<LayoutTable, YourTable, TheirTable>>,
     raises |-> FALSE, fails |-> {}]

GermanDoc ==
    [text   |-> "Hallo, carol ist auf Steam seit dem 3. März 2019. Sie sind mit diesem Nutzer nicht befreundet.",
     links  |-> <<CarolLink, CancelLink, ConfirmLink>>,
     imgs   |-> <<AvatarImg>>,
     spans  |-> <<LevelSpan>>,
     tables |-> <<IhreTable, VonTable>>,
     raises |-> FALSE, fails |-> {}]

ItemDocs ==
    { EnglishDoc, GermanDoc,
      \* a gift: nothing is asked in exchange
      [EnglishDoc EXCEPT !.text = "You are not friends with alice. You have not selected any items to trade.",
                         !.tables = <<YourTable>>],
      \* the wording of a gift, and a table of items asked in exchange
      [EnglishDoc EXCEPT !.text = "No items selected"],
      [GermanDoc EXCEPT !.text = "Sie haben keine Gegenstände zum Austausch ausgewählt",
                        !.tables = <<IhreTable>>],
      [GermanDoc EXCEPT !.text = "Sie haben keine Gegenstände zum Austausch ausgewählt"],
      \* no table names its items
      [EnglishDoc EXCEPT !.tables = <<LayoutTable>>],
      \* a document BeautifulSoup raises on
      [EnglishDoc EXCEPT !.raises = TRUE] }

FailDocs ==
    { [doc EXCEPT !.fails = fails] : doc \in {EnglishDoc, GermanDoc},
                                     fails \in SUBSET Steps }

ParseBodies == LinkDocs \cup ItemDocs \cup FailDocs

InitParse ==
    /\ allowed_traders \in AllowLists
    /\ mail = "none"
    /\ inbox \in { <<[subject |-> "New Trade Offer", body |-> body]>> :
                      body \in ParseBodies }
    /\ unseen = {1}
    /\ pc = "parse_trade_email"
    /\ fetched = {1}
    /\ trade_offers = <<>>
    /\ idx = 1
    /\ processed_count = 0
    /\ accepted_count = 0
    /\ gate = <<>>
    /\ marks = <<>>
    /\ gets = <<>>
    /\ confirm_url = None
    /\ max_retries = 0
    /\ language \in Languages
    /\ attempt = 0
    /\ result = FALSE
    /\ get_count = 0
    /\ sleep_count = 0
    /\ slept = 0
    /\ pre_delay = 0
    /\ last_kind = "none"
    /\ response = NoResponse

\* trade_data = self.parse_trade_email(body, language)
ParseCall ==
    /\ pc = "parse_trade_email"
    /\ trade_offers' =
          <<[email_id   |-> 1,
             subject    |-> inbox[1].subject,
             trade_data |-> parse_trade_email(inbox[1].body, language,
                                              allowed_traders),
             language   |-> language]>>
    /\ pc' = "parse_return"
    /\ UNCHANGED <<allowed_traders, inbox, mail, unseen, fetched, idx, processed_count,
                   accepted_count, gate, marks, gets, frame>>

NextParse == ParseCall

SpecParse == InitParse /\ [][NextParse]_vars

\* detect_email_language called on its own: three subjects, and bodies made of
\* up to MaxPhrases fragments, with and without cues of either language.
MaxPhrases == 2

Fragments ==
    { "Hallo", "hello", "Steam-Level 5", "Steam Level 5", "nicht befreundet",
      "Decline", "12345" }

RECURSIVE JoinWords(_, _)
JoinWords(words, k) ==
    IF k > Len(words) THEN ""
    ELSE words[k] \o (IF k < Len(words) THEN " " ELSE "") \o JoinWords(words, k + 1)

LangSubjects == { "", "New Trade Offer", "Neues Handelsangebot" }

LangBodies == { JoinWords(words, 1) : words \in SeqsUpTo(Fragments, MaxPhrases) }

InitLang ==
    /\ allowed_traders = <<>>
    /\ mail = "none"
    /\ inbox \in { <<[subject |-> subject,
                       body |-> [text |-> text, links |-> <<>>, raises |-> FALSE]
                                 @@ PlainDoc]>> :
                      subject \in LangSubjects, text \in LangBodies }
    /\ unseen = {1}
    /\ pc = "detect_email_language"
    /\ fetched = {1}
    /\ trade_offers = <<>>
    /\ idx = 1
    /\ processed_count = 0
    /\ accepted_count = 0
    /\ gate = <<>>
    /\ marks = <<>>
    /\ gets = <<>>
    /\ IdleFrame

\* language = self.detect_email_language(subject, body)
DetectCall ==
    /\ pc = "detect_email_language"
    /\ language' = detect_email_language(inbox[1].subject, RawBody(inbox[1].body))
    /\ pc' = "detect_return"
    /\ UNCHANGED <<allowed_traders, inbox, mail, unseen, fetched, trade_offers, idx,
                   processed_count, accepted_count, gate, marks, gets,
                   confirm_url, max_retries, attempt, result, get_count,
                   sleep_count, slept, pre_delay, last_kind, response>>

NextLang == DetectCall

SpecLang == InitLang /\ [][NextLang]_vars

-----------------------------------------------------------------------------
(* Properties *)

InAcceptTrade == pc \in {"accept_trade", "session_get", "accept_return"}

Got200 == response.kind = "response" /\ response.status_code = 200

HasSuccessPhrase ==
    AnyIn(language_patterns[language].success_indicators, Lower(response.text))

HasErrorPhrase ==
    AnyIn(language_patterns[language].error_indicators, Lower(response.text))

\* C1: in process_trade_offers no GET is issued for an offer that
\* is_trader_allowed rejected.
C1_NoGetForRejected ==
    \A i \in 1..Len(trade_offers) :
        (i <= Len(gate) /\ ~gate[i]) => gets[i] = 0

\* An offer with a profile and a confirm_url was rejected and marked read without
\* a GET, in a batch where another offer was confirmed.
C1_Witness ==
    /\ pc = "close"
    /\ \E i, j \in 1..Len(trade_offers) :
          /\ ~gate[i]
          /\ trade_offers[i].trade_data.trader_profile # None
          /\ trade_offers[i].trade_data.confirm_url # None
          /\ marks[i] = 1
          /\ gets[i] = 0
          /\ gets[j] > 0

\* C2: an offer whose record has no confirm_url never reaches accept_trade, so
\* no GET is issued for it, allowlisted or not.
C2_NoAcceptWithoutConfirmUrl ==
    /\ \A i \in 1..Len(trade_offers) :
          trade_offers[i].trade_data.confirm_url = None => gets[i] = 0
    /\ (InAcceptTrade /\ idx <= Len(trade_offers)) =>
          /\ trade_offers[idx].trade_data.confirm_url # None
          /\ confirm_url = trade_offers[idx].trade_data.confirm_url

\* An allowlisted offer without confirm_url has been handled.
C2_Witness ==
    \E i \in 1..Len(trade_offers) :
        /\ i < idx
        /\ gate[i]
        /\ trade_offers[i].trade_data.confirm_url = None
        /\ gets[i] = 0

\* C3: for a record with a profile, is_trader_allowed is true exactly when some
\* allowlist entry is a substring of the profile, and a longer allowlist keeps
\* a true result true.
C3_AllowedIffSubstring ==
    pc = "gate_return" =>
        LET trade_data == trade_offers[1].trade_data
            profile    == trade_data.trader_profile
        IN  profile # None =>
              /\ gate[1] <=> \E k \in 1..Len(allowed_traders) :
                                 Contains(allowed_traders[k], profile)
              /\ gate[1] => \A e \in GateEntries :
                               /\ is_trader_allowed(trade_data, Append(allowed_traders, e))
                               /\ is_trader_allowed(trade_data, <<e>> \o allowed_traders)

\* The gate said yes on the strength of the second entry of the allowlist.
C3_Witness ==
    /\ pc = "gate_return"
    /\ gate[1]
    /\ Len(allowed_traders) = 2
    /\ ~Contains(allowed_traders[1], trade_offers[1].trade_data.trader_profile)

\* C4: is_trader_allowed is false for a record without a profile, whatever
\* the allowlist.
C4_AbsentProfileRejected ==
    (pc = "gate_return" /\ trade_offers[1].trade_data.trader_profile = None)
        => gate[1] = FALSE

\* The gate has answered for a record without a profile.
C4_Witness ==
    /\ pc = "gate_return"
    /\ trade_offers[1].trade_data.trader_profile = None
    /\ Len(allowed_traders) = 2
    /\ ~gate[1]

\* C5: when accept_trade returns after a failed attempt, every attempt has
\* failed: it has issued exactly max_retries GETs and returns false.
C5_AllFailedExactlyMaxRetries ==
    (pc = "accept_return" /\ last_kind \notin {"success", "plain_200"}) =>
        /\ get_count = max_retries
        /\ result = FALSE

\* Three failed attempts, one of them a connectivity failure, the last a
\* status other than 200.
C5_Witness ==
    /\ pc = "accept_return"
    /\ max_retries = 3
    /\ get_count = 3
    /\ sleep_count = 3
    /\ last_kind = "http_status"
    /\ ~result

\* C6: a first GET answered 200 with a success phrase makes accept_trade return
\* true after that one GET, without a sleep.
C6_FirstSuccessNoSleep ==
    (get_count = 1 /\ Got200 /\ HasSuccessPhrase) =>
        /\ pc = "accept_return"
        /\ result = TRUE
        /\ sleep_count = 0

\* The first GET of a German offer was answered with a German success phrase.
C6_Witness ==
    /\ pc = "accept_return"
    /\ get_count = 1
    /\ language = "german"
    /\ response.status_code = 200
    /\ response.text = "Handel BESTÄTIGT"
    /\ result

OrdinaryFailures == {"error_phrase", "http_status", "request", "unexpected"}

\* C7: no delay before attempt 1; before attempt n >= 2 the total delay since
\* the end of attempt n-1 is 5-15 seconds after an ordinary failure and 10-30
\* seconds after a connectivity failure.
C7_DelayWindows ==
    pc = "session_get" =>
        /\ get_count = 1 => pre_delay = 0
        /\ (get_count >= 2 /\ last_kind \in OrdinaryFailures) =>
              pre_delay \in RetryDelayMin..RetryDelayMax
        /\ (get_count >= 2 /\ last_kind = "connection") =>
              pre_delay \in ConnDelayMin..ConnDelayMax

\* The third GET is sent 45 seconds after a connectivity failure: the 30 seconds
\* of the handler and the 15 seconds before every retry.
C7_Witness ==
    /\ pc = "session_get"
    /\ get_count = 3
    /\ last_kind = "connection"
    /\ pre_delay = ConnDelayMax + RetryDelayMax

\* C8: on a 200, a success phrase of the offer's language returns true; an
\* error phrase without a success phrase is a failed attempt, retried while
\* attempts remain; neither returns true.
C8_ClassifiesBody ==
    Got200 =>
        /\ HasSuccessPhrase => (pc = "accept_return" /\ result)
        /\ (~HasSuccessPhrase /\ HasErrorPhrase) =>
              IF get_count < max_retries
              THEN pc = "accept_trade" /\ attempt = get_count
              ELSE pc = "accept_return" /\ ~result
        /\ (~HasSuccessPhrase /\ ~HasErrorPhrase) => (pc = "accept_return" /\ result)

\* A body with a success phrase and an error phrase was taken as a success,
\* after an error-phrase body was retried.
C8_Witness ==
    /\ pc = "accept_return"
    /\ get_count = 2
    /\ Got200
    /\ HasSuccessPhrase
    /\ HasErrorPhrase
    /\ result

\* C9: mark_email_as_read has been called once for every offer handled and not
\* yet for the others; for the offer being confirmed it has not been called.
C9_MarkedOnceAfterConfirm ==
    /\ \A i \in 1..Len(trade_offers) : marks[i] = (IF i < idx THEN 1 ELSE 0)
    /\ (InAcceptTrade /\ idx <= Len(trade_offers)) => marks[idx] = 0

\* A batch of two is done: the first offer's confirmation failed after three
\* GETs, the second was not confirmed at all.
C9_Witness ==
    /\ pc = "close"
    /\ Len(trade_offers) = 2
    /\ marks = <<1, 1>>
    /\ gets = <<3, 0>>
    /\ accepted_count = 0

\* The fetched messages that are trade notifications.
Notifications == { k \in fetched : is_trade_email(inbox[k].subject) }

\* C10 as claimed: the processed count equals the number of notifications of the
\* fetched batch, those without a record included.
C10_CountsEveryNotification ==
    (pc = "close" /\ trade_offers # <<>>) =>
        processed_count = Cardinality(Notifications)

\* C10: the processed count equals the number of offers handed to
\* process_trade_offers, which are the notifications of the fetched batch that
\* gave a record; a notification without a record is dropped before.
C10_CountsEveryOffer ==
    /\ (pc = "close" /\ trade_offers # <<>>) =>
          /\ processed_count = Len(trade_offers)
          /\ processed_count =
               Cardinality({ k \in Notifications :
                   parse_trade_email(inbox[k].body, "english", allowed_traders)
                       # NoRecord })
    /\ (pc = "process" /\ trade_offers # <<>>) => processed_count = idx - 1

\* A batch of two notifications, one without a record, has been processed.
C10_Witness ==
    /\ pc = "close"
    /\ processed_count = 1
    /\ Cardinality(Notifications) = 2
    /\ \E k \in Notifications : inbox[k].body.raises

\* The points of process_trade_offers.
InProcessTradeOffers == pc = "process" \/ InAcceptTrade

C12_NoExceptionEscapes ==
    /\ response.kind \in Exceptions =>
          /\ pc \in {"accept_trade", "accept_return"}
          /\ last_kind \in {"connection", "request", "unexpected"}
          /\ pc = "accept_return" => ~result
          /\ pc = "accept_trade" => attempt = get_count
    /\ pc \in {"close", "run_except"} =>
          /\ idx > Len(trade_offers)
          /\ processed_count = Len(trade_offers)

\* The first offer's confirmation failed after three GETs; the first GET for
\* the second offer timed out and is about to be retried.
C12_Witness ==
    /\ pc = "accept_trade"
    /\ Len(trade_offers) = 2
    /\ idx = 2
    /\ gets = <<3, 1>>
    /\ response.kind = "Timeout"
    /\ attempt = 1

\* The document parse_trade_email was called on, and what it returned.
ParsedBody == inbox[1].body

ParsedRecord == trade_offers[1].trade_data

HasProfileLink(body) == \E k \in 1..Len(body.links) : IsProfileHref(body.links[k].href)

HasConfirmLink(body) == \E k \in 1..Len(body.links) : IsConfirmHref(body.links[k].href)

\* C13: parse_trade_email does not raise: it returns None, or a record with
\* every field, in which a field the document gives nothing for holds its
\* default.
C13_NeverRaises ==
    pc = "parse_return" =>
        /\ ParsedRecord # Raised
        /\ ParsedRecord # NoRecord =>
              /\ DOMAIN ParsedRecord = DOMAIN DefaultRecord(language)
              /\ ParsedRecord.language = language
              /\ ~HasProfileLink(ParsedBody) =>
                    /\ ParsedRecord.trader_name = "Unknown"
                    /\ ParsedRecord.trader_profile = None
                    /\ ParsedRecord.is_trusted_trader = FALSE
              /\ ~HasConfirmLink(ParsedBody) =>
                    /\ ParsedRecord.confirm_url = None
                    /\ ParsedRecord.cancel_url = None
                    /\ ParsedRecord.trade_id = None
              /\ ParsedBody.imgs = <<>> /\ ParsedBody.tables = <<>> =>
                    ParsedRecord.trader_avatar = None
              /\ ParsedBody.spans = <<>> => ParsedRecord.trader_level = "Unknown"
              /\ ParsedBody.tables = <<>> \/ "items" \in ParsedBody.fails =>
                    /\ ParsedRecord.your_items = <<>>
                    /\ ParsedRecord.their_items = <<>>
              /\ ParsedBody.fails \cap {"items", "donation"} # {} =>
                    ParsedRecord.is_donation = FALSE

\* BeautifulSoup raised on the document, and parse_trade_email returned None.
C13_Witness ==
    /\ pc = "parse_return"
    /\ ParsedBody.raises
    /\ ParsedRecord = NoRecord

\* C14: in every record parse_trade_email returns, is_donation = true implies
\* that their_items is empty.
C14_DonationHasNoTheirItems ==
    (pc = "parse_return" /\ ParsedRecord # NoRecord) =>
        (ParsedRecord.is_donation => ParsedRecord.their_items = <<>>)

\* The document has the wording of a gift and a table of the other party's
\* items: the record is a donation with two items asked in exchange.
C14_Witness ==
    /\ pc = "parse_return"
    /\ ParsedRecord # NoRecord
    /\ ParsedRecord.is_donation
    /\ Len(ParsedRecord.their_items) = 2
    /\ language = "english"

\* C15: a notification process_trade_offers has handled is no longer unread,
\* so that no later pass fetches it again or sends another GET for it.
C15_HandledIsRead ==
    \A i \in 1..Len(trade_offers) :
        i < idx => trade_offers[i].email_id \notin unseen

\* The pass is over: its one offer was confirmed with a GET and is still
\* unread, for the next pass to fetch.
C15_Witness ==
    /\ pc = "close"
    /\ processed_count = 1
    /\ accepted_count = 1
    /\ gets = <<1>>
    /\ marks = <<1>>
    /\ trade_offers[1].email_id \in unseen

\* The text detect_email_language was called on, lower-cased.
DetectedText == Lower(inbox[1].subject \o " " \o RawBody(inbox[1].body))

\* The phrases of one language's catalogue, as <<category, position>>.
PhrasesOf(lang) ==
    UNION { { <<c, k>> : k \in 1..Len(language_patterns[lang][c]) } :
            c \in Categories }

\* How many phrases of the catalogue occur in the text.
PhrasesPresent(lang, text) ==
    Cardinality({ p \in PhrasesOf(lang) :
                    Contains(language_patterns[lang][p[1]][p[2]], text) })

\* How many times the phrases of the catalogue occur in the text, all together.
RECURSIVE SumOccurrences(_, _, _)
SumOccurrences(lang, phrases, text) ==
    IF phrases = {} THEN 0
    ELSE LET p == CHOOSE x \in phrases : TRUE
         IN  Cardinality(Occurrences(language_patterns[lang][p[1]][p[2]], text))
             + SumOccurrences(lang, phrases \ {p}, text)

\* C16 as claimed: detect_email_language returns german exactly when the German
\* phrases occur more often in the lower-cased text than the English phrases.
C16_CountsOccurrences ==
    pc = "detect_return" =>
        (language = "german" <=>
            SumOccurrences("german", PhrasesOf("german"), DetectedText)
              > SumOccurrences("english", PhrasesOf("english"), DetectedText))

\* C16: detect_email_language returns german exactly when more German phrases
\* than English phrases occur in the lower-cased text, each phrase counted once
\* however often it occurs; it returns english otherwise, on a tie and without
\* any cue.
C16_CountsPhrasesPresent ==
    pc = "detect_return" =>
        /\ language \in {"german", "english"}
        /\ language = "german" <=>
              PhrasesPresent("german", DetectedText)
                > PhrasesPresent("english", DetectedText)

\* A tie with cues of both languages: english.
C16_Witness ==
    /\ pc = "detect_return"
    /\ PhrasesPresent("german", DetectedText) = 1
    /\ PhrasesPresent("english", DetectedText) = 1
    /\ language = "english"

\* The profile links of the document parse_trade_email was called on, and those
\* among them that contain an entry of the allowlist.
ProfileLinks == SelectSeq(ParsedBody.links, LAMBDA l : IsProfileHref(l.href))

AllowlistedLinks ==
    SelectSeq(ProfileLinks, LAMBDA l : AnyIn(allowed_traders, l.href))

\* C17: when a profile link of the body contains an allowlist entry, the
\* record's counterparty is the (first) allowlisted link, with the hint true,
\* wherever it stands among the profile links; the first profile link is the
\* counterparty, with the hint false, only when none is allowlisted.
C17_PrefersAllowlistedLink ==
    (pc = "parse_return" /\ ParsedRecord # NoRecord) =>
        IF AllowlistedLinks # <<>>
        THEN /\ ParsedRecord.trader_profile = AllowlistedLinks[1].href
             /\ ParsedRecord.trader_name = Strip(AllowlistedLinks[1].text)
             /\ ParsedRecord.is_trusted_trader = TRUE
        ELSE IF ProfileLinks # <<>>
        THEN /\ ParsedRecord.trader_profile = ProfileLinks[1].href
             /\ ParsedRecord.trader_name = Strip(ProfileLinks[1].text)
             /\ ParsedRecord.is_trusted_trader = FALSE
        ELSE /\ ParsedRecord.trader_profile = None
             /\ ParsedRecord.is_trusted_trader = FALSE

\* The second profile link is allowlisted, the first is not: the record names
\* the first, untrusted.
C17_Witness ==
    /\ pc = "parse_return"
    /\ Len(ProfileLinks) = 2
    /\ AllowlistedLinks = <<ProfileLinks[2]>>
    /\ ParsedRecord.trader_profile = ProfileLinks[1].href
    /\ ParsedRecord.is_trusted_trader = FALSE

\* The fields each extraction step writes.
StepFields ==
    [trader       |-> {"trader_name", "trader_profile", "is_trusted_trader"},
     avatar       |-> {"trader_avatar"},
     level        |-> {"trader_level"},
     relationship |-> {"friendship_status", "friendship_date"},
     items        |-> {"your_items", "their_items"},
     item_table   |-> {"your_items", "their_items"},
     donation     |-> {"is_donation"},
     links        |-> {"confirm_url", "cancel_url", "trade_id"}]

\* What parse_trade_email returns for the same document when no step fails.
UnfailedRecord ==
    parse_trade_email([ParsedBody EXCEPT !.fails = {}], language, allowed_traders)

\* The record holds what the step contributes when nothing fails, "unfailed"
\* being that record.
StepContributed(step, unfailed) ==
    /\ ParsedRecord # NoRecord
    /\ \A f \in StepFields[step] : ParsedRecord[f] = unfailed[f]

\* parse_trade_email has returned from a document that parses as markup and on
\* which some step failed.
ParsedWithFailure ==
    /\ pc = "parse_return"
    /\ ~ParsedBody.raises
    /\ ParsedBody.fails # {}

MatchingLinks == SelectSeq(ParsedBody.links, LAMBDA l : IsConfirmHref(l.href))

CancelPositions ==
    { k \in 1..Len(MatchingLinks) : Contains("cancel=1", MatchingLinks[k].href) }

ConfirmPositions == (1..Len(MatchingLinks)) \ CancelPositions

\* C19: of the links matching the confirmation pattern, one with the cancel
\* marker is recorded as cancel_url only, never as confirm_url; confirm_url is
\* the last matching link without the marker (None without such a link), and
\* trade_id is the numeric id in that link, so the URL handed to accept_trade
\* never carries the cancel marker.
C19_ConfirmIsLastNonCancelLink ==
    (pc = "parse_return" /\ ParsedRecord # NoRecord) =>
        /\ ParsedRecord.confirm_url =
              IF ConfirmPositions = {} THEN None
              ELSE MatchingLinks[Greatest(ConfirmPositions)].href
        /\ ParsedRecord.cancel_url =
              IF CancelPositions = {} THEN None
              ELSE MatchingLinks[Greatest(CancelPositions)].href
        /\ ParsedRecord.confirm_url # None =>
              /\ ~Contains("cancel=1", ParsedRecord.confirm_url)
              /\ IsDigits(ParsedRecord.trade_id)
              /\ Contains("tradeoffer/" \o ParsedRecord.trade_id \o "/confirm",
                          ParsedRecord.confirm_url)
        /\ ParsedRecord.confirm_url = None => ParsedRecord.trade_id = None

\* A confirm link and after it, last in the document, a cancel link with
\* another id: the confirm link and its id are recorded, and the cancel link
\* as cancel_url.
C19_Witness ==
    /\ pc = "parse_return"
    /\ ParsedRecord # NoRecord
    /\ MatchingLinks = <<ConfirmLink, CancelLink3>>
    /\ ParsedRecord.confirm_url = ConfirmLink.href
    /\ ParsedRecord.trade_id = "123456789"
    /\ ParsedRecord.cancel_url = CancelLink3.href

------------------------------------------------------------------------------
(* _extract_items_from_table alone, on one table of a document *)

MaxImgs == 2

MaxDivs == 2

ItemTables ==
    { [text |-> "Your items", imgs |-> imgs, divs |-> divs] :
        imgs \in SeqsUpTo({ItemImg1, ItemImg2, LogoImg}, MaxImgs),
        divs \in SeqsUpTo({CrateDiv, KeyDiv, MetalDiv, NoteDiv}, MaxDivs) }

TableDocs ==
    { [text |-> "You have a new trade offer", links |-> <<>>, raises |-> FALSE,
       imgs |-> <<>>, spans |-> <<>>, tables |-> <<table>>, fails |-> fails] :
        table \in ItemTables, fails \in {{}, {"item_table"}} }

InitItems ==
    /\ allowed_traders = <<>>
    /\ mail = "none"
    /\ inbox \in { <<[subject |-> "New Trade Offer", body |-> body]>> :
                      body \in TableDocs }
    /\ unseen = {1}
    /\ pc = "_extract_items_from_table"
    /\ fetched = {1}
    /\ trade_offers = <<>>
    /\ idx = 1
    /\ processed_count = 0
    /\ accepted_count = 0
    /\ gate = <<>>
    /\ marks = <<>>
    /\ gets = <<>>
    /\ confirm_url = None
    /\ max_retries = 0
    /\ language = "english"
    /\ attempt = 0
    /\ result = FALSE
    /\ get_count = 0
    /\ sleep_count = 0
    /\ slept = 0
    /\ pre_delay = 0
    /\ last_kind = "none"
    /\ response = NoResponse

\* items = self._extract_items_from_table(table); trade_data['your_items'] = items
ItemsCall ==
    /\ pc = "_extract_items_from_table"
    /\ trade_offers' =
          <<[email_id   |-> 1,
             subject    |-> inbox[1].subject,
             trade_data |->
                 [DefaultRecord(language) EXCEPT !.your_items =
                     _extract_items_from_table(inbox[1].body.tables[1],
                         "item_table" \in inbox[1].body.fails)],
             language   |-> language]>>
    /\ pc' = "items_return"
    /\ UNCHANGED <<allowed_traders, inbox, mail, unseen, fetched, idx, processed_count,
                   accepted_count, gate, marks, gets, frame>>

NextItems == ItemsCall

SpecItems == InitItems /\ [][NextItems]_vars

\* The table _extract_items_from_table was called on and the list it returned.
ItemTable == inbox[1].body.tables[1]

ReturnedItems == trade_offers[1].trade_data.your_items

\* The positions in the table of the item images, and of the styled divs whose
\* stripped text is longer than 3 characters.
ImagePositions == { k \in 1..Len(ItemTable.imgs) : IsItemImg(ItemTable.imgs[k]) }

NamePositions ==
    { k \in 1..Len(ItemTable.divs) :
        /\ IsItemNameStyle(ItemTable.divs[k].style)
        /\ Len(Strip(ItemTable.divs[k].text)) > 3 }

\* The i-th smallest element of a set of positions.
NthOf(S, i) == CHOOSE k \in S : Cardinality({ j \in S : j <= k }) = i

\* C20: for a table it reads without an exception, _extract_items_from_table
\* returns one item per item image, in image order; the i-th item (i from 1)
\* has the i-th item image, index i - 1, and as name the stripped text of the
\* i-th styled div with more than 3 characters, or "Unknown Item" when there
\* are fewer than i such divs; names beyond the images are dropped.
C20_OneItemPerImage ==
    (pc = "items_return" /\ ParsedBody.fails = {}) =>
        /\ Len(ReturnedItems) = Cardinality(ImagePositions)
        /\ \A i \in 1..Len(ReturnedItems) :
              /\ ReturnedItems[i].image = ItemTable.imgs[NthOf(ImagePositions, i)]
              /\ ReturnedItems[i].index = i - 1
              /\ ReturnedItems[i].name =
                    IF i <= Cardinality(NamePositions)
                    THEN Strip(ItemTable.divs[NthOf(NamePositions, i)].text)
                    ELSE "Unknown Item"

\* Two item images, and two styled divs of which "Key" is too
\* short: the first item has the crate's name, the second is "Unknown Item".
C20_Witness ==
    /\ pc = "items_return"
    /\ ParsedBody.fails = {}
    /\ ItemTable.imgs = <<ItemImg2, ItemImg1>>
    /\ ItemTable.divs = <<KeyDiv, CrateDiv>>
    /\ ReturnedItems =
          <<[name |-> "Mann Co. Supply Crate", image |-> ItemImg2, index |-> 0],
            [name |-> "Unknown Item", image |-> ItemImg1, index |-> 1]>>

\* C21: is_trader_allowed, accept_trade and process_trade_offers change no
\* field of a trade record and no entry of the allowlist: in every step taken
\* inside process_trade_offers the list of offers, with its records, and the
\* allowlist are as before.
C21_RecordsImmutable ==
    [][InProcessTradeOffers =>
          /\ trade_offers' = trade_offers
          /\ allowed_traders' = allowed_traders]_vars

\* A batch of two offers handled to the end, one rejected at the gate and one
\* confirmed: both records still hold their confirm_url.
C21_Witness ==
    /\ pc = "process"
    /\ idx = 3
    /\ gate = <<TRUE, FALSE>>
    /\ gets[1] >= 1
    /\ trade_offers[1].trade_data.confirm_url = ConfirmLink.href
    /\ trade_offers[2].trade_data.confirm_url = ConfirmLink.href

\* C23: the is_trusted_trader hint of every record parse_trade_email returns
\* equals what is_trader_allowed returns for that record and the same
\* allowlist.  (process_trade_offers reads the verdict of is_trader_allowed
\* alone: see ProcessOffer and Rejected.)
C23_HintEqualsGate ==
    (pc = "parse_return" /\ ParsedRecord # NoRecord) =>
        (ParsedRecord.is_trusted_trader
           <=> is_trader_allowed(ParsedRecord, allowed_traders))

\* A document whose first profile link matches the second entry of the
\* allowlist: the hint is true and is_trader_allowed accepts the record.
C23_Witness ==
    /\ pc = "parse_return"
    /\ ParsedRecord # NoRecord
    /\ allowed_traders = <<"/id/bob", "/profiles/7656">>
    /\ Len(ProfileLinks) = 2
    /\ ProfileLinks[1] = CarolLink
    /\ ParsedRecord.trader_profile = CarolLink.href
    /\ ParsedRecord.is_trusted_trader
    /\ is_trader_allowed(ParsedRecord, allowed_traders)

\* C24: for every max_retries >= 0 and every sequence of outcomes of
\* session.get, accept_trade returns; it has then made at most max_retries
\* GETs and has not slept after its last attempt; with max_retries = 0 it has
\* made no GET and returns false.
C24_TerminatesWithinRetries ==
    /\ <>(pc = "accept_return")
    /\ [](get_count <= max_retries)
    /\ [](pc = "accept_return" => slept = 0)
    /\ []((pc = "accept_return" /\ max_retries = 0) =>
             (get_count = 0 /\ ~result))

\* Every attempt of the largest max_retries ended in a connection failure:
\* max_retries GETs, a sleep between the attempts and none after the last.
C24_Witness ==
    /\ pc = "accept_return"
    /\ max_retries = MaxRetriesArg
    /\ get_count = MaxRetriesArg
    /\ last_kind = "connection"
    /\ sleep_count >= MaxRetriesArg - 1
    /\ slept = 0
    /\ ~result

\* The loop of run has ended, or KeyboardInterrupt is on its way to end it.
Interrupted ==
    pc \in {"interrupt_in_try", "interrupt_in_handler", "stopped", "raised"}

\* C22: a failed pass of run (connect failed, or an exception got to the
\* handler of run) is followed by a wait and then by another pass, unless an
\* interrupt comes first; a pass starts only from a wait, and the loop ends
\* only through KeyboardInterrupt.
C22_FailureThenNextPass ==
    /\ (pc = "run_except") ~> (pc = "sleep_except" \/ Interrupted)
    /\ (pc \in {"sleep_connect", "sleep_except"}) ~> (pc = "connect" \/ Interrupted)
    /\ [][pc' = "connect" => pc \in Sleeps]_vars
    /\ [][pc' \in {"stopped", "raised"} =>
             pc \in {"interrupt_in_try", "interrupt_in_handler"}]_vars

\* mail.close() or mail.logout() raised after a batch of one offer was
\* processed: run is in the sleep of its handler, the loop has not ended.
C22_Witness ==
    /\ pc = "sleep_except"
    /\ Len(trade_offers) = 1
    /\ processed_count = 1
    /\ idx = 2

\* C25 as claimed: when a pass of run is about to open a connection, the
\* connection of the pass before, if that pass had one, has been closed and
\* logged out.
C25_LoggedOutBeforeNextConnect ==
    pc = "connect" => mail \in {"none", "logged_out"}

\* mail.close() raised: run sleeps in its handler, and the connection of the
\* pass was neither closed nor logged out.
C25_Witness ==
    /\ pc = "sleep_except"
    /\ mail = "open"

====
